---- MODULE Spec2Model ----
(***************************************************************************)
(* s5p-compress.py: resample one band of a netCDF cube along time, clip    *)
(* each slice to an optional shapefile and export one GeoTIFF per time     *)
(* index through a multiprocessing.Pool.                                   *)
(*                                                                         *)
(* Timestamps are whole hours since midnight of day 0.  A raster slice is  *)
(* one pixel, a fraction <<numerator, denominator>>; 0/0 is the missing    *)
(* value (NaN).                                                            *)
(***************************************************************************)
EXTENDS Integers, Sequences, FiniteSets, TLC

VARIABLES
  netcdf_exists,    \* exists(netcdf_file)
  band,             \* args.band, the name given on the command line
  time_resolution,  \* args.time_resolution
  shp,              \* args.shp: None or a path
  num_workers,      \* args.num_workers
  cube,             \* the time steps of every variable of the netCDF file
  preexisting,      \* what compressed/ held before the run
  pc,               \* position of main
  opened,           \* number of rioxarray.open_rasterio calls
  band_name,        \* main's local band_name (reassigned by input())
  listed,           \* the variable names printed by the last listing
  prompts,          \* number of input("Band name: ") calls
  ds,               \* the resampled series
  shapefile,        \* main's local shapefile
  dirs,             \* directories on disk
  files,            \* files on disk: path -> content
  pool,             \* multiprocessing.Pool state
  task,             \* per time index: state of the export task
  next_task,        \* next index of range(num_time) the pool hands out
  outqueue,         \* results not yet consumed by main, in completion order
  progress,         \* tqdm count
  exit_code         \* process exit status: <<status>>, <<>> while running

vars == <<netcdf_exists, band, time_resolution, shp, num_workers, cube,
          preexisting, pc, opened, band_name, listed, prompts, ds, shapefile,
          dirs, files, pool, task, next_task, outqueue, progress,
          exit_code>>

inputs == <<netcdf_exists, band, time_resolution, shp, num_workers, cube,
            preexisting>>

-----------------------------------------------------------------------------
(* Bounds *)

MaxSteps == 3      \* time steps of the source cube, whole pipeline
MaxWorkers == 2    \* --num-workers
MaxPrompts == 1    \* unknown names typed at the prompt
MaxDays == 10      \* time steps of the source cube, resampling alone

-----------------------------------------------------------------------------
(* Values *)

None == "None"
Missing == <<0, 0>>
Running == <<>>       \* exit_code of a process that has not exited

EXPORT_DIR == "compressed"
HoursPerDay == 24

DataVars == {"aod", "no2"}            \* DS.data_vars.keys()
BandNames == DataVars \cup {"o3"}     \* names a user may type
TimeResolutions == {"12H", "1D", "5D"}

\* The offset a pandas frequency string stands for, in hours.
FreqHours(res) ==
  CASE res = "12H" -> 12
    [] res = "1D"  -> HoursPerDay
    [] res = "5D"  -> 5 * HoursPerDay

\* strftime('%Y-%m-%d'): the calendar day of a timestamp; the hour is dropped.
DateOf(t) == t \div HoursPerDay

\* The cube of n time steps starting at hour start, one step every step
\* hours; step k holds the pixel 1 + (k - 1) * slope when present[k], else no
\* value.
CubeOf(n, start, step, present, slope) ==
  [k \in 1..n |->
     [time |-> start + (k - 1) * step,
      value |-> IF present[k] THEN <<1 + (k - 1) * slope, 1>> ELSE Missing]]

-----------------------------------------------------------------------------
(* band.resample(time=time_resolution).mean(dim='time', skipna=None) *)

RECURSIVE GCD(_, _)
GCD(a, b) == IF b = 0 THEN a ELSE GCD(b, a % b)

\* Sum of source pixels (whole numbers v/1).
RECURSIVE SumSeq(_)
SumSeq(s) == IF s = <<>> THEN 0 ELSE Head(s)[1] + SumSeq(Tail(s))

IsPresent(v) == v # Missing

\* Mean with the missing values counted in the divisor.
Mean_CountMissing(vals) ==
  LET present == SelectSeq(vals, IsPresent)
      n == Len(vals)
      total == SumSeq(present)
      g == GCD(total, n)
  IN IF Len(present) = 0 THEN Missing ELSE <<total \div g, n \div g>>

\* mean with skipna left to the default: missing values are skipped, and the
\* mean of no value at all is missing.
Mean(vals) ==
  LET present == SelectSeq(vals, IsPresent)
      n == Len(present)
      total == SumSeq(present)
      g == GCD(total, n)
  IN IF n = 0 THEN Missing ELSE <<total \div g, n \div g>>

\* Left edge of the first bin: bins are anchored at midnight of the first day.
FirstEdge(first, freq) ==
  LET origin == DateOf(first) * HoursPerDay
  IN first - ((first - origin) % freq)

\* The bin a timestamp is grouped into (closed left, labelled left).
BinOf(t, edge, freq) == ((t - edge) \div freq) + 1

\* The pixels of the time steps grouped into bin k, in time order.
Grouped(series, edge, freq, k) ==
  LET Member(e) == BinOf(e.time, edge, freq) = k
      members == SelectSeq(series, Member)
  IN [j \in 1..Len(members) |-> members[j].value]

\* One entry per bin from the first time step's bin to the last one's.
Resample(series, freq) ==
  LET edge == FirstEdge(series[1].time, freq)
      bins == BinOf(series[Len(series)].time, edge, freq)
  IN [k \in 1..bins |->
        [time |-> edge + (k - 1) * freq,
         value |-> Mean(Grouped(series, edge, freq, k))]]

-----------------------------------------------------------------------------
(* _export_raster *)

ExportDir(name) == <<EXPORT_DIR, name>>

\* export_name of _export_raster
ExportName(index, name, res, series) ==
  <<EXPORT_DIR, name, res, DateOf(series[index + 1].time)>>

DirOf(path) == <<path[1], path[2]>>

\* What to_raster writes: the slice, clipped when a shapefile is given.
\* written tells a file of this run from one an earlier run left.
Raster(index, mask, series) ==
  [value |-> series[index + 1].value, clipped |-> mask # None,
   written |-> "now"]

\* A file left by an earlier run.
Stale == [value |-> <<1, 1>>, clipped |-> FALSE, written |-> "before"]

-----------------------------------------------------------------------------
(* The file system before the run *)

Preexisting == {"nothing", "files"}

InitialDirs(pre) == IF pre = "nothing" THEN {} ELSE {ExportDir("aod")}

InitialFiles(pre) ==
  IF pre = "files"
  THEN [p \in {<<EXPORT_DIR, "aod", "1D", 0>>, <<EXPORT_DIR, "aod", "1D", 9>>}
          |-> Stale]
  ELSE [p \in {} |-> Stale]

\* makedirs that raises FileExistsError on an existing directory.
Makedirs_Strict(present, path, exist_ok) ==
  IF path \in present
  THEN <<FALSE, present>>
  ELSE <<TRUE, present \cup {path}>>

\* makedirs(path, exist_ok): <<succeeded, directories afterwards>>
Makedirs(present, path, exist_ok) ==
  IF path \in present
  THEN <<exist_ok, present>>
  ELSE <<TRUE, present \cup {path}>>

-----------------------------------------------------------------------------
(* Initial states *)

Start(found, names, masks, processes, lengths, starts, step, slope, disks) ==
  /\ netcdf_exists \in found
  /\ band \in names
  /\ time_resolution \in TimeResolutions
  /\ shp \in masks
  /\ num_workers \in processes
  /\ \E n \in lengths, start \in starts :
       \E present \in [1..n -> BOOLEAN] :
          cube = CubeOf(n, start, step, present, slope)
  /\ preexisting \in disks
  /\ pc = "check"
  /\ opened = 0
  /\ band_name = band
  /\ listed = {}
  /\ prompts = 0
  /\ ds = <<>>
  /\ shapefile = None
  /\ dirs = InitialDirs(preexisting)
  /\ files = InitialFiles(preexisting)
  /\ pool = "INIT"
  /\ task = <<>>
  /\ next_task = 0
  /\ outqueue = <<>>
  /\ progress = 0
  /\ exit_code = Running

\* A run on a cube of up to MaxSteps half-daily steps, each holding the pixel
\* 1 or no value.
Init ==
  Start(BOOLEAN, BandNames, {None, "mask.shp"}, 1..MaxWorkers,
        1..MaxSteps, {0}, 12, 0, Preexisting)

\* Resampling alone: main has opened the cube and resolved the band; the cube
\* has up to MaxDays daily steps stamped at midnight or at noon, step k
\* holding the pixel k or no value.
InitResample ==
  Start({TRUE}, {"aod"}, {None}, {1},
        1..MaxDays, {0, 12}, HoursPerDay, 1, {"nothing"})

-----------------------------------------------------------------------------
(* main, up to the pool *)

\* exit(1) and an exception leaving main both end the process with status 1.
Exit(status) ==
  /\ pc' = IF status = 0 THEN "done" ELSE "exited"
  /\ exit_code' = <<status>>

FileMissing ==
  /\ pc = "check"
  /\ ~netcdf_exists
  /\ Exit(1)
  /\ UNCHANGED <<inputs, opened, band_name, listed, prompts, ds, shapefile,
                 dirs, files, pool, task, next_task, outqueue, progress>>

\* The cube is opened without the exists() check.
OpenCube_Unchecked ==
  /\ pc = "check"
  /\ opened' = opened + 1
  /\ pc' = "select"
  /\ UNCHANGED <<inputs, band_name, listed, prompts, ds, shapefile, dirs, files,
                 pool, task, next_task, outqueue, progress, exit_code>>

OpenCube ==
  /\ pc = "check"
  /\ netcdf_exists
  /\ opened' = opened + 1
  /\ pc' = "select"
  /\ UNCHANGED <<inputs, band_name, listed, prompts, ds, shapefile, dirs, files,
                 pool, task, next_task, outqueue, progress, exit_code>>

\* The loop is left whatever the name.
SelectBand_AnyName ==
  /\ pc = "select"
  /\ pc' = "resample"
  /\ UNCHANGED <<inputs, opened, band_name, listed, prompts, ds, shapefile,
                 dirs, files, pool, task, next_task, outqueue, progress,
                 exit_code>>

\* band = DS[band_name]; break
SelectBand ==
  /\ pc = "select"
  /\ band_name \in DataVars
  /\ pc' = "resample"
  /\ UNCHANGED <<inputs, opened, band_name, listed, prompts, ds, shapefile,
                 dirs, files, pool, task, next_task, outqueue, progress,
                 exit_code>>

\* except KeyError: list the variables, band_name = input("Band name: ")
Reprompt ==
  /\ pc = "select"
  /\ band_name \notin DataVars
  /\ listed' = DataVars
  /\ prompts' = prompts + 1
  /\ \E name \in BandNames :
       /\ name \notin DataVars => prompts < MaxPrompts
       /\ band_name' = name
  /\ UNCHANGED <<inputs, pc, opened, ds, shapefile, dirs, files, pool, task,
                 next_task, outqueue, progress, exit_code>>

ResampleBand ==
  /\ pc = "resample"
  /\ ds' = Resample(cube, FreqHours(time_resolution))
  /\ pc' = "mask"
  /\ UNCHANGED <<inputs, opened, band_name, listed, prompts, shapefile, dirs,
                 files, pool, task, next_task, outqueue, progress,
                 exit_code>>

BuildMask ==
  /\ pc = "mask"
  /\ shapefile' = IF shp = None THEN None ELSE "simplified"
  /\ pc' = "makedirs"
  /\ UNCHANGED <<inputs, opened, band_name, listed, prompts, ds, dirs, files,
                 pool, task, next_task, outqueue, progress, exit_code>>

\* makedirs(f'{EXPORT_DIR}/{band_name}', exist_ok=True)
MakeDirs ==
  /\ pc = "makedirs"
  /\ LET made == Makedirs(dirs, ExportDir(band_name), TRUE)
     IN IF made[1]
        THEN /\ dirs' = made[2]
             /\ pc' = "pool"
             /\ UNCHANGED exit_code
        ELSE /\ Exit(1)
             /\ UNCHANGED dirs
  /\ UNCHANGED <<inputs, opened, band_name, listed, prompts, ds, shapefile,
                 files, pool, task, next_task, outqueue, progress>>

-----------------------------------------------------------------------------
(* The pool: with Pool(processes=num_workers) as pool: ... *)

\* range(n)
Range(n) == 0..(n - 1)

\* with Pool(processes=num_workers) as pool
CreatePool ==
  /\ pc = "pool"
  /\ pool' = "RUN"
  /\ pc' = "imap"
  /\ UNCHANGED <<inputs, opened, band_name, listed, prompts, ds, shapefile,
                 dirs, files, task, next_task, outqueue, progress, exit_code>>

\* pool.imap_unordered(partial(_export_raster, ...), range(num_time)):
\* every index is queued; main goes on to consume the results.
Imap ==
  /\ pc = "imap"
  /\ task' = [i \in Range(Len(ds)) |-> "pending"]
  /\ next_task' = 0
  /\ pc' = "drain"
  /\ UNCHANGED <<inputs, opened, band_name, listed, prompts, ds, shapefile,
                 dirs, files, pool, outqueue, progress, exit_code>>

\* The indices still queued, and those a worker process is running.
Queued == { i \in DOMAIN task : task[i] = "pending" }
InWorker == { i \in DOMAIN task : task[i] = "running" }

\* One of the num_workers processes is idle.
IdleWorker == Cardinality(InWorker) < num_workers

\* An idle worker takes the next queued index and computes export_name.
StartTask ==
  /\ pool \in {"RUN", "CLOSE"}
  /\ IdleWorker
  /\ next_task \in Queued
  /\ task' = [task EXCEPT ![next_task] = "running"]
  /\ next_task' = next_task + 1
  /\ UNCHANGED <<inputs, pc, opened, band_name, listed, prompts, ds,
                 shapefile, dirs, files, pool, outqueue, progress, exit_code>>

\* to_raster(export_name) succeeds: the file holds this task's raster.
FinishTask(index) ==
  /\ pool \in {"RUN", "CLOSE"}
  /\ index \in InWorker
  /\ LET export_name == ExportName(index, band_name, time_resolution, ds)
     IN /\ DirOf(export_name) \in dirs
        /\ files' = [p \in DOMAIN files \cup {export_name} |->
                       IF p = export_name THEN Raster(index, shapefile, ds)
                                          ELSE files[p]]
  /\ task' = [task EXCEPT ![index] = "done"]
  /\ outqueue' = Append(outqueue, [index |-> index, ok |-> TRUE])
  /\ UNCHANGED <<inputs, pc, opened, band_name, listed, prompts, ds,
                 shapefile, dirs, pool, next_task, progress, exit_code>>

\* _export_raster raises (I/O error, invalid geometry, empty clip): nothing
\* is caught in the worker function, the pool ships the exception to main.
FailTask(index) ==
  /\ pool \in {"RUN", "CLOSE"}
  /\ index \in InWorker
  /\ task' = [task EXCEPT ![index] = "failed"]
  /\ outqueue' = Append(outqueue, [index |-> index, ok |-> FALSE])
  /\ UNCHANGED <<inputs, pc, opened, band_name, listed, prompts, ds,
                 shapefile, dirs, files, pool, next_task, progress, exit_code>>

\* list(tqdm(...)) takes the next result, in completion order.
NextResult ==
  /\ pc = "drain"
  /\ outqueue # <<>>
  /\ Head(outqueue).ok
  /\ outqueue' = Tail(outqueue)
  /\ progress' = progress + 1
  /\ UNCHANGED <<inputs, pc, opened, band_name, listed, prompts, ds,
                 shapefile, dirs, files, pool, task, next_task, exit_code>>

\* Pool.terminate(): the workers are killed, queued tasks are dropped.
Terminate ==
  /\ pool' = "TERMINATE"
  /\ task' = [i \in DOMAIN task |->
                IF task[i] = "running" THEN "killed" ELSE task[i]]
  /\ outqueue' = <<>>

\* The exception is dropped and counted as a result.
RaiseFailure_Swallowed ==
  /\ pc = "drain"
  /\ outqueue # <<>>
  /\ ~Head(outqueue).ok
  /\ outqueue' = Tail(outqueue)
  /\ progress' = progress + 1
  /\ UNCHANGED <<inputs, pc, opened, band_name, listed, prompts, ds,
                 shapefile, dirs, files, pool, task, next_task, exit_code>>

\* The exception leaves main with the pool left as it is.
RaiseFailure_PoolLeft ==
  /\ pc = "drain"
  /\ outqueue # <<>>
  /\ ~Head(outqueue).ok
  /\ Exit(1)
  /\ UNCHANGED <<inputs, opened, band_name, listed, prompts, ds, shapefile,
                 dirs, files, pool, task, next_task, outqueue, progress>>

\* The next result is an exception: list() re-raises it in main, the with
\* block terminates the pool and the exception leaves main.
RaiseFailure ==
  /\ pc = "drain"
  /\ outqueue # <<>>
  /\ ~Head(outqueue).ok
  /\ Terminate
  /\ Exit(1)
  /\ UNCHANGED <<inputs, opened, band_name, listed, prompts, ds, shapefile,
                 dirs, files, next_task, progress>>

\* The results are not waited for and the pool is not joined.
ClosePool_NoWait ==
  /\ pc = "drain"
  /\ pool' = "CLOSE"
  /\ pc' = "joined"
  /\ UNCHANGED <<inputs, opened, band_name, listed, prompts, ds, shapefile,
                 dirs, files, task, next_task, outqueue, progress, exit_code>>

\* list() has taken one result per submitted index; pool.close()
ClosePool ==
  /\ pc = "drain"
  /\ progress = Cardinality(DOMAIN task)
  /\ pool' = "CLOSE"
  /\ pc' = "join"
  /\ UNCHANGED <<inputs, opened, band_name, listed, prompts, ds, shapefile,
                 dirs, files, task, next_task, outqueue, progress, exit_code>>

\* pool.join(): the workers exit once the task queue is empty.
JoinPool ==
  /\ pc = "join"
  /\ Queued = {}
  /\ InWorker = {}
  /\ pc' = "joined"
  /\ UNCHANGED <<inputs, opened, band_name, listed, prompts, ds, shapefile,
                 dirs, files, pool, task, next_task, outqueue, progress,
                 exit_code>>

\* End of the with block, tqdm.write('Done'), main returns.
Done ==
  /\ pc = "joined"
  /\ Terminate
  /\ Exit(0)
  /\ UNCHANGED <<inputs, opened, band_name, listed, prompts, ds, shapefile,
                 dirs, files, next_task, progress>>

-----------------------------------------------------------------------------

MainStep ==
  \/ FileMissing \/ OpenCube \/ SelectBand \/ Reprompt \/ ResampleBand
  \/ BuildMask \/ MakeDirs \/ CreatePool \/ Imap \/ NextResult
  \/ RaiseFailure \/ ClosePool \/ JoinPool \/ Done

WorkerStep(index) == FinishTask(index) \/ FailTask(index)

Next ==
  \/ MainStep
  \/ StartTask
  \/ \E index \in DOMAIN task : FinishTask(index)
  \/ \E index \in DOMAIN task : FailTask(index)

Spec == Init /\ [][Next]_vars

\* The operating system schedules main and every worker process; a worker
\* that runs a task ends it, by returning or by raising.
SpecLive ==
  /\ Init
  /\ [][Next]_vars
  /\ WF_vars(MainStep)
  /\ WF_vars(StartTask)
  /\ \A index \in Range(MaxSteps) : WF_vars(WorkerStep(index))

NextResample == OpenCube \/ SelectBand \/ ResampleBand

SpecResample == InitResample /\ [][NextResample]_vars

-----------------------------------------------------------------------------
(* Properties *)

\* Sum of the pixels of the time steps with numbers in S.
RECURSIVE SumOver(_)
SumOver(S) ==
  IF S = {} THEN 0
  ELSE LET k == CHOOSE k \in S : TRUE
       IN cube[k].value[1] + SumOver(S \ {k})

\* The time steps whose timestamp falls in the bucket labelled t.
StepsIn(t) ==
  { k \in 1..Len(cube) :
      /\ t <= cube[k].time
      /\ cube[k].time < t + FreqHours(time_resolution) }

PresentIn(t) == { k \in StepsIn(t) : cube[k].value # Missing }

Resampled == pc \notin {"check", "select", "resample"} /\ opened = 1

-----------------------------------------------------------------------------

\* The index range of the resampled series, range(num_time).
TimeIndices == 0..(Len(ds) - 1)

\* export_name of the task for index i
PathOf(i) == ExportName(i, band_name, time_resolution, ds)

\* The files this run has written.
Written == { p \in DOMAIN files : files[p].written = "now" }

\* C1: when main completes normally, the run has written exactly one file
\* per time index of the resampled series: as many files as buckets, the
\* file of every index among them.
C1_OneFilePerBucket ==
  pc = "done" =>
    /\ Cardinality(Written) = Len(ds)
    /\ \A i \in TimeIndices : PathOf(i) \in Written

\* C2: no two export tasks, running or finished, target the same file.
C2_DistinctPaths ==
  \A i, j \in DOMAIN task :
    (/\ i # j
     /\ task[i] \in {"running", "done", "failed"}
     /\ task[j] \in {"running", "done", "failed"})
    => PathOf(i) # PathOf(j)

\* The files on disk after the tasks for indices i, i + 1, ... have run one
\* after the other on the files before.
RECURSIVE InOrder(_, _)
InOrder(i, before) ==
  IF i \notin TimeIndices THEN before
  ELSE InOrder(i + 1,
               [p \in DOMAIN before \cup {PathOf(i)} |->
                  IF p = PathOf(i) THEN Raster(i, shapefile, ds)
                                   ELSE before[p]])

\* C8: a run that completes normally leaves the files that running the tasks
\* one after the other in index order leaves, whatever the order in which
\* the workers finished them.
C8_OrderIndependent ==
  pc = "done" => files = InOrder(0, InitialFiles(preexisting))

\* C3: when the input file does not exist, main goes from its first check
\* straight to exit status 1: the cube is never opened, no band is prompted
\* for or listed, no directory or file is created, no pool is started and no
\* task is dispatched.
C3_MissingInputExits ==
  ~netcdf_exists =>
    /\ pc \in {"check", "exited"}
    /\ pc = "exited" => exit_code = <<1>>
    /\ pc = "check" => exit_code = Running
    /\ opened = 0
    /\ prompts = 0
    /\ listed = {}
    /\ ds = <<>>
    /\ dirs = InitialDirs(preexisting)
    /\ files = InitialFiles(preexisting)
    /\ pool = "INIT"
    /\ task = <<>>

C3_Witness ==
  /\ ~netcdf_exists
  /\ pc = "exited"
  /\ exit_code = <<1>>
  /\ band \notin DataVars
  /\ preexisting = "nothing"

\* The positions of main after the band selection loop.
PastSelect ==
  {"resample", "mask", "makedirs", "pool", "imap", "drain", "join", "joined",
   "done"}

\* C4: in the selection loop main never fails; an unknown name makes it list
\* the variables of the cube and prompt once more, staying in the loop; it
\* leaves the loop only with a name that is a variable, and to resampling;
\* the cube is opened once, before the loop, and never by a reprompt; past
\* the loop the name is a variable of the cube.
C4_RepromptUntilResolved ==
  /\ [](opened <= 1)
  /\ [](pc \in PastSelect => band_name \in DataVars /\ opened = 1)
  /\ [](pc = "select" => opened = 1 /\ exit_code = Running /\ ds = <<>>)
  /\ [][pc = "select" =>
         /\ pc' \in {"select", "resample"}
         /\ exit_code' = Running
         /\ opened' = opened
         /\ band_name \notin DataVars =>
              /\ pc' = "select"
              /\ listed' = DataVars
              /\ prompts' = prompts + 1
         /\ band_name \in DataVars =>
              /\ pc' = "resample"
              /\ band_name' = band_name
              /\ prompts' = prompts]_vars

\* Two unknown names in a row, then a known one.
C4_Witness ==
  /\ pc = "resample"
  /\ band \notin DataVars
  /\ prompts = 2
  /\ listed = DataVars
  /\ band_name \in DataVars
  /\ opened = 1

\* C5: once main has left the pool block and reported Done, every time index
\* of the resampled series has a finished export task whose result main has
\* taken, nothing is queued and no worker runs a task.
C5_DoneAfterAllTasks ==
  pc = "done" =>
    /\ DOMAIN task = TimeIndices
    /\ \A i \in TimeIndices : task[i] = "done" /\ PathOf(i) \in Written
    /\ InWorker = {}
    /\ Queued = {}
    /\ outqueue = <<>>
    /\ progress = Len(ds)

\* Three tasks on two workers, all written, after a reprompt.
C5_Witness ==
  /\ pc = "done"
  /\ exit_code = <<0>>
  /\ Len(ds) = 3
  /\ num_workers = 2
  /\ prompts > 0
  /\ \A i \in TimeIndices : files[PathOf(i)].written = "now"

Failed == { i \in DOMAIN task : task[i] = "failed" }

\* C6: once a task has failed the run never completes normally; main takes
\* the failure from the result queue by exiting with status 1, with the pool
\* terminated, no worker left running and the queued tasks never started; a
\* failed task stays failed.
C6_TaskFailureIsFatal ==
  /\ [](Failed # {} => pc # "done" /\ exit_code # <<0>>)
  /\ [](Failed # {} /\ pc = "exited" =>
          exit_code = <<1>> /\ pool = "TERMINATE" /\ InWorker = {})
  /\ [][/\ Failed \subseteq Failed'
        /\ pool = "TERMINATE" => task' = task
        /\ (pc = "drain" /\ outqueue # <<>> /\ ~Head(outqueue).ok /\ pc' # pc)
             => pc' = "exited" /\ exit_code' = <<1>> /\ pool' = "TERMINATE"
        /\ (pc = "drain" /\ outqueue # <<>> /\ ~Head(outqueue).ok)
             => progress' = progress]_vars

\* One task written, one failed, one killed in its worker, with the failure
\* taken by main.
C6_Witness ==
  /\ pc = "exited"
  /\ Failed # {}
  /\ \E i \in DOMAIN task : task[i] = "done"
  /\ \E i \in DOMAIN task : task[i] = "killed"
  /\ Written # {}

\* A failure taken by main with a task still queued, never to be started.
C6_WitnessAbandoned ==
  /\ pc = "exited"
  /\ Failed # {}
  /\ Queued # {}

\* The worker pool's states, in the order it goes through them.
PoolPhase ==
  CASE pool = "INIT"      -> 0    \* Idle
    [] pool = "RUN"       -> 1    \* Dispatching, tasks Running
    [] pool = "CLOSE"     -> 2    \* Draining
    [] pool = "TERMINATE" -> 3    \* Closed

TaskEdges ==
  { <<"pending", "running">>, <<"running", "done">>, <<"running", "failed">>,
    <<"running", "killed">> }

\* C7: once the tasks are dispatched the pool eventually is Closed, and stays
\* Closed; it moves through Idle, Dispatching, Draining, Closed in that order
\* and never back; a task runs only in a pool that is not Closed, and goes
\* from queued to Running to Done or Failed (or is killed by the closing
\* pool).
C7_PoolReachesClosed ==
  /\ (pc = "drain") ~> (pool = "TERMINATE")
  /\ [](pc = "done" => pool = "TERMINATE")
  /\ [][/\ pool = "TERMINATE" => pool' = "TERMINATE"
        /\ PoolPhase' \in {PoolPhase, PoolPhase + 1, 3}
        /\ PoolPhase = 0 => PoolPhase' \in {0, 1}
        /\ \A i \in DOMAIN task :
             /\ i \in DOMAIN task'
             /\ task'[i] # task[i] => <<task[i], task'[i]>> \in TaskEdges
             /\ task'[i] \in {"done", "failed"} /\ task'[i] # task[i]
                  => pool \in {"RUN", "CLOSE"}]_vars

\* Closed after every task reported Done.
C7_Witness ==
  /\ pool = "TERMINATE"
  /\ pc = "done"
  /\ Len(ds) = 3

\* Closed by a failure, from Dispatching.
C7_WitnessAbort ==
  /\ pool = "TERMINATE"
  /\ pc = "exited"
  /\ Failed # {}
  /\ Queued # {}

\* C10: whenever a task has been dispatched, the directory compressed/ of
\* the resolved band name exists and is the directory every task writes to;
\* creating it never fails, adds no other directory and touches no file, also
\* when it exists already; no file is ever removed, and a file changes only
\* when a task of this run writes to its path.
C10_DirectoryBeforeDispatch ==
  /\ [](task # <<>> =>
          /\ band_name \in DataVars
          /\ ExportDir(band_name) \in dirs
          /\ \A i \in DOMAIN task : DirOf(PathOf(i)) = ExportDir(band_name))
  /\ [][/\ pc = "makedirs" =>
             /\ pc' = "pool"
             /\ exit_code' = Running
             /\ dirs' = dirs \cup {ExportDir(band_name)}
             /\ files' = files
        /\ pc # "makedirs" => dirs' = dirs
        /\ \A p \in DOMAIN files :
             /\ p \in DOMAIN files'
             /\ files'[p] # files[p] =>
                  \E i \in InWorker : p = PathOf(i) /\ task'[i] = "done"]_vars

\* Tasks dispatched after a reprompt into a directory an earlier run left,
\* with that run's files still there.
C10_Witness ==
  /\ task # <<>>
  /\ band \notin DataVars
  /\ band_name = "aod"
  /\ preexisting = "files"
  /\ \A p \in DOMAIN InitialFiles(preexisting) : p \in DOMAIN files
  /\ \E i \in DOMAIN task : task[i] = "done"

\* The same, into a directory the run had to create.
C10_WitnessCreated ==
  /\ task # <<>>
  /\ band \notin DataVars
  /\ band_name = "no2"
  /\ ExportDir("no2") \notin InitialDirs(preexisting)
  /\ \E i \in DOMAIN task : task[i] = "done"

====
